---- MODULE Spec2Model ----
(***************************************************************************)
(* libtrashcan, Unix core (src/src/trashcan.c): soft_delete() moving an    *)
(* entry into a FreeDesktop.org trash directory.  Several soft_delete      *)
(* calls run concurrently against one file system; every action is one     *)
(* system call (or a run of purely local statements ending in one).        *)
(***************************************************************************)
EXTENDS Integers, Sequences, FiniteSets, TLC

\* ------------------------------------------------------------------ bounds
NCalls == 2        \* concurrent soft_delete calls
NSources == 3      \* entries the calls may name
CounterBits == 1   \* width of `unsigned int counter` in the model (the build has 32)
NRand == 1         \* distinct names the random source can produce
MaxTime == 1       \* seconds the wall clock can advance
MaxFaults == 1     \* system calls that fail for reasons outside the model
MaxComLen == 1     \* longest path, in characters, given to soft_delete_com

\* ------------------------------------------------------ program constants
LIBTRASHCAN_SUCCESS == 0
LIBTRASHCAN_REALPATH == -1
LIBTRASHCAN_HOMETRASH == -2
LIBTRASHCAN_HOMESTAT == -3
LIBTRASHCAN_PATHSTAT == -4
LIBTRASHCAN_MKDIRHOME == -5
LIBTRASHCAN_TOPDIRTRASH == -6
LIBTRASHCAN_NAME == -7
LIBTRASHCAN_TIME == -8
LIBTRASHCAN_FILENAMES == -9
LIBTRASHCAN_TRASHINFO == -10
LIBTRASHCAN_RENAME == -11
LIBTRASHCAN_COLLISION == -12
LIBTRASHCAN_DIRCACHE == -13

\* STATUS_CODES of the Windows build
LIBTRASHCAN_COMINIT == -1
LIBTRASHCAN_INSTANCE == -2
LIBTRASHCAN_FLAGS == -3
LIBTRASHCAN_PARSE == -4
LIBTRASHCAN_SETOP == -5
LIBTRASHCAN_EXECOP == -6

TsLen == 14       \* strlen of "%Y%m%d%H%M%S"
SuffixLen == 10   \* strlen(".trashinfo")
SizeBits == 30    \* width of size_t in the model (the cast of name_max)
NoLimit == -1     \* pathconf() result when the file system sets no limit

Calls == 1..NCalls
Sources == 1..NSources
Times == 0..MaxTime
CounterMod == 2^CounterBits
Roots == {"Home", "TopAdmin", "TopUser"}
NameMaxValues == {NoLimit, 14, 25, 255, 256}

\* ------------------------------------------------- the entries to be trashed
\* realpath() of a source: its device, its final segment, its kind.
SrcDev(s) == IF s % 2 = 0 THEN "usb" ELSE "home"
SrcName(s) == "a"
SrcIsDir(s) == s <= 2

\* Entries trashed before the calls start (occupants 100, 101, ...: directories).
OldOcc(i) == 100 + i
IsDirOcc(o) == IF o >= 100 THEN TRUE ELSE SrcIsDir(o)

\* --------------------------------------------------------------- names
\* A stem: the standard form basename + timestamp + hex counter, or a random
\* hex string (the k-th value of the random source).
StdStem(name, t, c) == <<"std", name, t, c>>
RndStem(k) == <<"rnd", "", 0, k>>
GenFail == <<"fail", "", 0, 0>>

HexLen(c) == IF c < 16 THEN 1 ELSE 2

\* generate_random_filename(): the length must be even.
generate_random_filename(len, k) ==
    IF len % 2 # 0 THEN GenFail ELSE RndStem(k)

\* generate_filenames(): the candidate for (name, timeinfo, counter,
\* enforce_random_name) on a file system whose pathconf() gives nmax; k is the
\* value the random source would produce.
generate_filenames(name, t, c, enforce, nmax, k) ==
    LET chars_left == IF nmax = NoLimit THEN 0
                      ELSE nmax - (TsLen + Len(name) + HexLen(c) + SuffixLen)
    IN  IF chars_left > 0 /\ ~enforce
        THEN StdStem(name, t, c)
        ELSE generate_random_filename((nmax - SuffixLen) % (2^SizeBits), k)

\* ------------------------------------------------------------- sidecars
\* Mutant of fopen_wx: the file is opened with "w", an existing sidecar is
\* overwritten.
fopen_w(exists, fault) ==
    IF fault = "open" THEN "err" ELSE "ok"

\* fopen(trashinfo_filepath, "wx") in create_info_file(): "eexist" is the
\* collision signal (status 1), "err" any other failure (status -1).
fopen_wx(exists, fault) ==
    IF fault = "open" THEN "err" ELSE IF exists THEN "eexist" ELSE "ok"

Stems(set) == {e.stem : e \in set}

\* Mutant of remove_info: the sidecar is left behind.
remove_nothing(set, st) == set

\* remove(trash_info_file) after a failed rename.
remove_info(set, st) == {e \in set : e.stem # st}

\* The collision branch of soft_delete's loop: counter++, give up when the
\* random form collided, force the random form when the counter wrapped.
NextCounter(c) == (c + 1) % CounterMod
\* Mutant of CollisionGivesUp: a collision never ends the call.
CollisionNeverGivesUp(enforce) == FALSE
\* Mutant of CollisionGivesUp: the first collision ends the call.
CollisionAlwaysGivesUp(enforce) == TRUE
CollisionGivesUp(enforce) == enforce
\* Mutant of CollisionEnforces: the first collision already enforces a random
\* name.
CollisionEnforcesAtOnce(c, enforce) == TRUE
CollisionEnforces(c, enforce) == enforce \/ NextCounter(c) = 0

\* ------------------------------------------------------------- top dirs
\* The four lstat/mkdir steps on the case (1) directory in soft_delete;
\* t is the state of $mount/.Trash and $mount/.Trash/$uid, mk whether
\* create_trash_dir() succeeds.
LstatUidOk(t) == t.dot # "absent" /\ t.uid # "absent"
Case1Accepted(t, mk) ==
    /\ LstatUidOk(t)
    /\ t.uidSticky
    /\ t.uid # "symlink"
    /\ mk

\* get_home_trash_dir(): which variable gives the home trash, or "fail".
get_home_trash_dir(e) ==
    IF e.xdg = "unset"
    THEN IF e.home = "unset" THEN "fail" ELSE "home"
    ELSE "xdg"

\* mkdir_recursive(data_home): an empty path is refused.
DataHomeEmpty(e) == e.xdg = "empty"

VARIABLES
    orig,       \* orig[s]: source s exists at its canonical path
    files,      \* files[r]: entries of r/files, [stem, occ]
    info,       \* info[r]: sidecars of r/info, [stem, by, path, date, full]
    lost,       \* occupants a rename has replaced
    topdir,     \* $mount/.Trash, $mount/.Trash/$uid, $mount/.Trash-$uid
    dirsizes,   \* dirsizes[r]: r/directorysizes, [exists, rows]
    tmp,        \* tmp[p]: the temporary file call p wrote, [exists, rows]
    name_max,   \* pathconf(files_dir, _PC_NAME_MAX)
    env,        \* XDG_DATA_HOME and HOME
    threads,    \* the calls are threads of one process (they share localtime's buffer)
    faults,     \* system calls that may still fail for reasons outside the model
    now,        \* the wall clock, in seconds, when a call last read it
    tm,         \* the struct tm buffers localtime() returns
    pc, src, root, counter, rnd, stem, status, rawtime,
    attempts,   \* attempts[p]: the calls of create_info_file() call p has made
    heap,       \* heap[p]: the heap buffers call p has allocated and not freed
    streams,    \* streams[p]: the streams call p has opened and not closed
    links,      \* the sources a symbolic link of the same directory points to
    given,      \* given[p]: the path call p was given, [link, to]
    d_type,     \* readdir() on files_dir fills d_type (else it is DT_UNKNOWN)
    win,        \* win[p]: a soft_delete_com() call of the Windows build
    esc,        \* a call of escape_path() and the reading of its result
    mnt         \* a call of get_mountpoint()

vars == <<orig, files, info, lost, topdir, dirsizes, tmp, name_max, env, threads,
          faults, now, tm, pc, src, root, counter, rnd, stem, status, rawtime,
          attempts, heap, streams, links, given, d_type, win, esc, mnt>>

fsvars == <<orig, files, info, lost, topdir, dirsizes, tmp>>
cfgvars == <<name_max, env, threads, d_type, links>>
localvars == <<src, root, counter, rnd, stem, rawtime, attempts, given>>
resvars == <<heap, streams>>
\* What the calls of soft_delete() leave alone.
sidevars == <<win, esc, mnt>>

NoFile == [exists |-> FALSE, rows |-> {}, whole |-> TRUE]
NoStem == <<"none", "", 0, 0>>

\* escape_path() and get_mountpoint() before they are called.
EscReady == [pc |-> "ready", str |-> <<>>, i |-> 0, buf |-> <<>>]
MntReady == [pc |-> "ready", table |-> <<>>, device |-> "none", i |-> 0,
             status |-> -1, mount_dir |-> "none"]

\* A soft_delete_com() call before it starts: status = LIBTRASHCAN_SUCCESS,
\* wcs = NULL.
ComReady == [pc |-> "ready", path |-> [null |-> TRUE, len |-> 0], init_com |-> FALSE,
             mbslen |-> 0, wcs |-> FALSE, status |-> LIBTRASHCAN_SUCCESS,
             recycled |-> FALSE]

\* Mutant of BufOf: every call is handed the same buffer.
BufShared(p) == 0
\* The buffer localtime() hands to call p.
BufOf(p) == IF threads THEN 0 ELSE p

\* ------------------------------------------------------------------ Init
\* The states of $mount/.Trash (dot) and $mount/.Trash/$uid (uid) the calls
\* may find; far: $mount/.Trash is a symbolic link to a directory of another
\* device; $mount/.Trash-$uid (case2) does not exist yet.
Mounts ==
    { [dot |-> "absent",  dotSticky |-> FALSE, uid |-> "absent",  uidSticky |-> FALSE, far |-> FALSE, case2 |-> FALSE],
      [dot |-> "dir",     dotSticky |-> TRUE,  uid |-> "absent",  uidSticky |-> FALSE, far |-> FALSE, case2 |-> FALSE],
      [dot |-> "dir",     dotSticky |-> TRUE,  uid |-> "dir",     uidSticky |-> FALSE, far |-> FALSE, case2 |-> FALSE],
      [dot |-> "dir",     dotSticky |-> TRUE,  uid |-> "dir",     uidSticky |-> TRUE,  far |-> FALSE, case2 |-> FALSE],
      [dot |-> "dir",     dotSticky |-> TRUE,  uid |-> "symlink", uidSticky |-> TRUE,  far |-> FALSE, case2 |-> FALSE],
      [dot |-> "dir",     dotSticky |-> FALSE, uid |-> "dir",     uidSticky |-> TRUE,  far |-> FALSE, case2 |-> FALSE],
      [dot |-> "symlink", dotSticky |-> FALSE, uid |-> "dir",     uidSticky |-> TRUE,  far |-> FALSE, case2 |-> FALSE],
      [dot |-> "symlink", dotSticky |-> FALSE, uid |-> "dir",     uidSticky |-> TRUE,  far |-> TRUE,  case2 |-> FALSE] }

Envs ==
    { [xdg |-> "unset", home |-> "set"],   [xdg |-> "set",   home |-> "set"],
      [xdg |-> "empty", home |-> "set"],   [xdg |-> "unset", home |-> "unset"],
      [xdg |-> "empty", home |-> "unset"] }

\* k standard-form and j random-form entries trashed at second 0, each with
\* its sidecar.
OldFiles(k, j) ==
    {[stem |-> StdStem("a", 0, c), occ |-> OldOcc(c)] : c \in 0..(k - 1)}
    \cup {[stem |-> RndStem(i), occ |-> OldOcc(CounterMod + i)] : i \in 1..j}
OldInfo(k, j) ==
    {[stem |-> e.stem, by |-> 0, path |-> e.occ, date |-> 0, full |-> TRUE] : e \in OldFiles(k, j)}

\* A directory of files_dir whose sidecar is gone, under a name no call
\* generates.
Orphans(w) ==
    IF "orphan" \in DOMAIN w /\ w.orphan
    THEN {[stem |-> StdStem("b", 0, 0), occ |-> OldOcc(CounterMod + NRand + 1)]}
    ELSE {}

\* The file systems the calls start on: every state of the top directory with
\* an empty trash, and every filling of the trash and every name limit with
\* the top directory absent or ready.
MountAbsent == [dot |-> "absent", dotSticky |-> FALSE, uid |-> "absent", uidSticky |-> FALSE, far |-> FALSE, case2 |-> FALSE]
MountReady == [dot |-> "dir", dotSticky |-> TRUE, uid |-> "dir", uidSticky |-> TRUE, far |-> FALSE, case2 |-> FALSE]
Worlds ==
    {[topdir |-> m, k |-> 0, j |-> 0, name_max |-> 256] : m \in Mounts}
    \cup {[topdir |-> m, k |-> k, j |-> j, name_max |-> n] :
             m \in {MountAbsent, MountReady}, k \in 0..CounterMod, j \in 0..NRand,
             n \in NameMaxValues}
EnvDefault == [xdg |-> "unset", home |-> "set"]

InitWith(W, E, T, nfaults) ==
    /\ orig = [s \in Sources |-> TRUE]
    /\ \E w \in W :
         /\ files = [r \in Roots |-> OldFiles(w.k, w.j) \cup Orphans(w)]
         /\ d_type = IF "d_type" \in DOMAIN w THEN w.d_type ELSE TRUE
         /\ links = IF "links" \in DOMAIN w THEN w.links ELSE {}
         /\ info = [r \in Roots |-> OldInfo(w.k, w.j)]
         /\ topdir = w.topdir
         /\ name_max = w.name_max
    /\ lost = {}
    /\ dirsizes = [r \in Roots |-> NoFile]
    /\ tmp = [p \in Calls |-> NoFile]
    /\ env \in E
    /\ threads \in T
    /\ faults = nfaults
    /\ now = 0
    /\ tm = [b \in 0..NCalls |-> 0]
    /\ pc = [p \in Calls |-> "ready"]
    /\ src = [p \in Calls |-> 0]
    /\ given = [p \in Calls |-> [link |-> FALSE, to |-> 0]]
    /\ root = [p \in Calls |-> "none"]
    /\ counter = [p \in Calls |-> 0]
    /\ rnd = [p \in Calls |-> FALSE]
    /\ stem = [p \in Calls |-> NoStem]
    /\ status = [p \in Calls |-> LIBTRASHCAN_SUCCESS]
    /\ rawtime = [p \in Calls |-> 0]
    /\ attempts = [p \in Calls |-> 0]
    /\ heap = [p \in Calls |-> {}]
    /\ streams = [p \in Calls |-> {}]
    /\ win = [p \in Calls |-> ComReady]
    /\ esc = EscReady
    /\ mnt = MntReady

Init == InitWith(Worlds, {EnvDefault}, {FALSE}, MaxFaults)
InitNoFault == InitWith(Worlds, {EnvDefault}, {FALSE}, 0)

\* A system call may fail for an outside reason f while some failure is left,
\* and only where the failure changes what the step does.
MayFail(f, changes) == f = "none" \/ (faults > 0 /\ changes)
Spend(f) == IF f = "none" THEN faults ELSE faults - 1

\* --------------------------------------------------------------- actions
\* The paths a caller may pass: the canonical path of a source, or the path
\* of a symbolic link to it.
Paths == {[link |-> l, to |-> s] : l \in BOOLEAN, s \in Sources}
\* Something is at the path: the source, or the link (whatever it points to).
ExistsAt(pa) == IF pa.link THEN pa.to \in links ELSE orig[pa.to]
\* realpath(): the canonical path, every symbolic link followed, the last
\* component included.
realpath(pa) == pa.to

\* realpath(path, NULL), soft_delete line 978.
Realpath(p) ==
    /\ pc[p] = "ready"
    /\ \A q \in Calls : q < p => pc[q] # "ready"   \* the calls are numbered as they begin
    /\ \E pa \in Paths : \E s \in {realpath(pa)} :
         /\ pa.link => ExistsAt(pa)
         /\ given' = [given EXCEPT ![p] = pa]
         /\ src' = [src EXCEPT ![p] = s]
         /\ pc' = [pc EXCEPT ![p] = IF orig[s] THEN "located" ELSE "done"]
         /\ status' = [status EXCEPT ![p] = IF orig[s] THEN @ ELSE LIBTRASHCAN_REALPATH]
         /\ heap' = [heap EXCEPT ![p] = IF orig[s] THEN @ \cup {"resolved_path"} ELSE @]
    /\ UNCHANGED <<fsvars, cfgvars, sidevars, faults, now, tm, root, counter, rnd, stem, rawtime,
                   attempts, streams>>

\* The trash root of a source on device dev, soft_delete lines 982-1031:
\* the status, the root and the top directories after it; f is the system
\* call that fails.  The root is "none" when the call fails before it knows
\* the source's device, "unprepared" when the source is on another device
\* than the home trash and neither top directory could be prepared.
select_root(e, t, dev, exists, f) ==
    IF get_home_trash_dir(e) = "fail"
    THEN [st |-> LIBTRASHCAN_HOMETRASH, r |-> "none", td |-> t]
    ELSE IF DataHomeEmpty(e) \/ f = "mkdir_home"
    THEN [st |-> LIBTRASHCAN_MKDIRHOME, r |-> "none", td |-> t]
    ELSE IF f = "lstat_home"
    THEN [st |-> LIBTRASHCAN_HOMESTAT, r |-> "none", td |-> t]
    ELSE IF ~exists
    THEN [st |-> LIBTRASHCAN_PATHSTAT, r |-> "none", td |-> t]
    ELSE IF dev = "home"
    THEN IF f = "mkdir_trash"
         THEN [st |-> LIBTRASHCAN_MKDIRHOME, r |-> "none", td |-> t]
         ELSE [st |-> LIBTRASHCAN_SUCCESS, r |-> "Home", td |-> t]
    ELSE IF f = "mount"
    THEN [st |-> LIBTRASHCAN_TOPDIRTRASH, r |-> "unprepared", td |-> t]
    ELSE IF Case1Accepted(t, f # "mkdir1")
    THEN [st |-> LIBTRASHCAN_SUCCESS, r |-> "TopAdmin", td |-> t]
    ELSE IF f = "mkdir_trash"
    THEN [st |-> LIBTRASHCAN_MKDIRHOME, r |-> "unprepared", td |-> t]
    ELSE [st |-> LIBTRASHCAN_SUCCESS, r |-> "TopUser", td |-> [t EXCEPT !.case2 = TRUE]]

\* The buffers soft_delete() frees at a label, lines 1093-1102.
TrashBufs == {"trash_dir", "trash_info_dir", "trash_files_dir"}
NameBufs == {"trashed_file", "trash_info_file"}
frees(label) ==
    CASE label = "error_2" -> NameBufs \cup TrashBufs \cup {"resolved_path"}
      [] label = "error_1" -> TrashBufs \cup {"resolved_path"}
      [] OTHER -> {}

\* The calls of get_mountpoint() that found the mount point, lines 1012 and
\* 1027, given what select_root() returned: none for a source on the home
\* trash's device or when the mount table could not be opened, one when case
\* (1) was accepted, two when case (2) was tried.
mounts_found(sel) ==
    CASE sel.r \in {"none", "Home"} -> 0
      [] sel.st = LIBTRASHCAN_TOPDIRTRASH -> 0
      [] sel.r = "TopAdmin" -> 1
      [] OTHER -> 2
\* get_top_trash_dir() line 453: mount_dir, which no line frees; and
\* get_mountpoint() line 393: the stream of setmntent(), which no line closes.
mount_dirs(n) == CASE n = 0 -> {} [] n = 1 -> {"mount_dir"} [] OTHER -> {"mount_dir", "mount_dir (2)"}
mount_streams(n) == CASE n = 0 -> {} [] n = 1 -> {"fptr"} [] OTHER -> {"fptr", "fptr (2)"}
\* The label soft_delete() leaves lines 982-1044 by when it fails.
select_label(st) == IF st = LIBTRASHCAN_HOMETRASH THEN "error_0" ELSE "error_1"
\* The buffers lines 982-1031 allocate: those of get_home_trash_dir() (the
\* three trash paths are freed and allocated again for a top directory).
select_allocs(sel) ==
    IF sel.st = LIBTRASHCAN_HOMETRASH THEN {}
    ELSE {"data_home"} \cup TrashBufs \cup mount_dirs(mounts_found(sel))

SelectFaults == {"none", "mkdir_home", "lstat_home", "mkdir_trash", "mount", "mkdir1", "time"}

\* soft_delete lines 982-1050: the trash root, its directories, the time.
SelectRoot(p) ==
    /\ pc[p] = "located"
    /\ \E f \in SelectFaults :
         /\ LET sel == select_root(env, topdir, SrcDev(src[p]), orig[src[p]], f)
                st == IF sel.st = LIBTRASHCAN_SUCCESS /\ f = "time"
                      THEN LIBTRASHCAN_TIME ELSE sel.st
                ok == st = LIBTRASHCAN_SUCCESS
                plain == select_root(env, topdir, SrcDev(src[p]), orig[src[p]], "none")
            IN  /\ MayFail(f, <<sel, st>> # <<plain, plain.st>>)
                /\ faults' = Spend(f)
                /\ topdir' = sel.td
                /\ root' = [root EXCEPT ![p] = sel.r]
                /\ heap' = [heap EXCEPT ![p] =
                       IF ok THEN @ \cup select_allocs(sel)
                       ELSE (@ \cup select_allocs(sel)) \ frees(select_label(st))]
                /\ streams' = [streams EXCEPT ![p] = @ \cup mount_streams(mounts_found(sel))]
                /\ status' = [status EXCEPT ![p] = st]
                /\ pc' = [pc EXCEPT ![p] = IF ok THEN "naming" ELSE "done"]
                /\ \E t \in now..MaxTime :
                     /\ now' = IF ok THEN t ELSE now
                     /\ rawtime' = [rawtime EXCEPT ![p] = IF ok THEN t ELSE @]
                     /\ tm' = IF ok THEN [tm EXCEPT ![BufOf(p)] = t] ELSE tm
    /\ UNCHANGED <<orig, files, info, lost, dirsizes, tmp, cfgvars, sidevars,
                   src, counter, rnd, stem, attempts, given>>

AttemptFaults == {"none", "gen", "open", "write"}

\* One turn of the loop up to the sidecar, soft_delete lines 1054-1056 and
\* 1071-1090: generate_filenames(), create_info_file(), and the branch on
\* its status.
Attempt(p) ==
    /\ pc[p] = "naming"
    /\ \E f \in AttemptFaults, k \in 1..NRand :
         /\ LET r == root[p]
                t == tm[BufOf(p)]
                gen == generate_filenames(SrcName(src[p]), t, counter[p], rnd[p], name_max, k)
                cand == IF f = "gen" THEN GenFail ELSE gen
                res == IF cand = GenFail THEN "nogen"
                       ELSE fopen_wx(cand \in Stems(info[r]), f)
                sidecar == [stem |-> cand, by |-> p, path |-> src[p], date |-> t,
                            full |-> f # "write"]
            IN  /\ MayFail(f, CASE f = "gen" -> gen # GenFail
                                 [] f = "open" -> gen # GenFail
                                 [] f = "write" -> res = "ok"
                                 [] OTHER -> FALSE)
                /\ faults' = Spend(f)
                /\ info' = IF res = "ok" THEN [info EXCEPT ![r] = @ \cup {sidecar}] ELSE info
                /\ stem' = [stem EXCEPT ![p] = IF res = "ok" THEN cand ELSE NoStem]
                /\ counter' = [counter EXCEPT ![p] = IF res = "eexist" THEN NextCounter(@) ELSE @]
                /\ rnd' = [rnd EXCEPT ![p] = IF res = "eexist" THEN CollisionEnforces(counter[p], @) ELSE @]
                /\ status' = [status EXCEPT ![p] =
                       CASE res = "nogen" -> LIBTRASHCAN_FILENAMES
                         [] res = "err" -> LIBTRASHCAN_TRASHINFO
                         [] res = "ok" /\ f = "write" -> LIBTRASHCAN_TRASHINFO
                         [] res = "eexist" /\ CollisionGivesUp(rnd[p]) -> LIBTRASHCAN_COLLISION
                         [] OTHER -> @]
                /\ pc' = [pc EXCEPT ![p] =
                       CASE res = "ok" /\ f # "write" -> "commit"
                         [] res = "eexist" /\ ~CollisionGivesUp(rnd[p]) -> "naming"
                         [] OTHER -> "done"]
                /\ attempts' = [attempts EXCEPT ![p] = IF res = "nogen" THEN @ ELSE @ + 1]
                /\ heap' = [heap EXCEPT ![p] =
                       CASE res = "nogen" -> @ \ frees("error_1")
                         [] res = "ok" /\ f # "write" -> @ \cup NameBufs
                         [] res = "eexist" /\ ~CollisionGivesUp(rnd[p]) -> (@ \cup NameBufs) \ NameBufs
                         [] OTHER -> (@ \cup NameBufs) \ frees("error_2")]
                /\ streams' = [streams EXCEPT ![p] =
                       IF res \in {"nogen", "err"} THEN @
                       ELSE (@ \cup {"info_file"}) \ {"info_file"}]
    /\ UNCHANGED <<orig, files, lost, topdir, dirsizes, tmp, cfgvars, sidevars, now, tm,
                   src, root, rawtime, given>>

\* The device files_dir of root r lies on: get_home_trash_dir() and
\* get_top_trash_dir() build the path below data_home or below the mount
\* point of the source's device, and $mount/.Trash may lead elsewhere.
FilesDev(r, t) ==
    CASE r = "Home" -> "home"
      [] r = "TopAdmin" -> IF t.far THEN "other" ELSE "usb"
      [] OTHER -> "usb"

\* Mutant of rename_ok: the rename succeeds though nothing is at the source
\* path any more.
rename_ok_absent(exists, samedev, f) == samedev /\ f # "rename"
\* rename(resolved_path, trashed_file), soft_delete line 1061: it fails when
\* nothing is at the source path any more, when the two paths are on
\* different devices (EXDEV), or for a reason of the system's.
rename_ok(exists, samedev, f) == exists /\ samedev /\ f # "rename"
\* What rename() leaves at the source path, and in files_dir (an entry already
\* at the target is replaced).
\* Mutant of rename_source: the entry is copied, the source stays.
copy_source(o, s) == o
rename_source(o, s) == [o EXCEPT ![s] = FALSE]
rename_target(set, st, s) == {e \in set : e.stem # st} \cup {[stem |-> st, occ |-> s]}
\* Mutant of after_rename: the result of rename() is not looked at.
after_rename_unchecked(ok) == "cache"
\* Where the call goes after the rename.
after_rename(ok) == IF ok THEN "cache" ELSE "rollback"

Commit(p) ==
    /\ pc[p] = "commit"
    /\ \E f \in {"none", "rename"} :
         /\ LET r == root[p]
                samedev == FilesDev(r, topdir) = SrcDev(src[p])
                ok == rename_ok(orig[src[p]], samedev, f)
            IN  /\ MayFail(f, orig[src[p]] /\ samedev)
                /\ faults' = Spend(f)
                /\ orig' = IF ok THEN rename_source(orig, src[p]) ELSE orig
                /\ files' = IF ok THEN [files EXCEPT ![r] = rename_target(@, stem[p], src[p])]
                            ELSE files
                /\ lost' = IF ok
                           THEN lost \cup ({e.occ : e \in files[r]} \ {e.occ : e \in files'[r]})
                           ELSE lost
                /\ pc' = [pc EXCEPT ![p] = after_rename(ok)]
    /\ UNCHANGED <<info, topdir, dirsizes, tmp, cfgvars, sidevars, now, tm, localvars, status,
                   resvars>>

\* remove(trash_info_file) and the return, soft_delete lines 1063-1064.
Rollback(p) ==
    /\ pc[p] = "rollback"
    /\ info' = [info EXCEPT ![root[p]] = remove_info(@, stem[p])]
    /\ status' = [status EXCEPT ![p] = LIBTRASHCAN_RENAME]
    /\ pc' = [pc EXCEPT ![p] = "done"]
    /\ heap' = [heap EXCEPT ![p] = @ \ frees("error_2")]
    /\ UNCHANGED <<orig, files, lost, topdir, dirsizes, tmp, cfgvars, sidevars, faults, now, tm,
                   localvars, streams>>

\* What a trashed directory holds: a sequence of entries [kind, size, kids],
\* size being st_size as lstat() reports it (for a symbolic link the length of
\* its target, for a directory that of the directory file) and kids the
\* entries below a directory (below its target for a symbolic link).
Reg(n) == [kind |-> "reg", size |-> n, kids |-> <<>>]
Other(n) == [kind |-> "other", size |-> n, kids |-> <<>>]
Dir(n, kids) == [kind |-> "dir", size |-> n, kids |-> kids]
Lnk(n, kids) == [kind |-> "lnk", size |-> n, kids |-> kids]
Tree(o) ==
    CASE o = 1 -> <<Reg(5), Lnk(7, <<Reg(11)>>), Dir(4, <<Reg(3), Other(9), Lnk(2, <<>>)>>)>>
      [] o = 2 -> <<Dir(4, <<Dir(4, <<Reg(2)>>)>>), Reg(1), Dir(4, <<>>)>>
      [] OTHER -> <<Reg(o % 3), Lnk(1, <<>>)>>

\* Mutant of get_dir_size: st_size of every entry is added, whatever its kind.
RECURSIVE get_dir_size_any(_)
get_dir_size_any(entries) ==
    IF entries = <<>> THEN 0
    ELSE LET e == Head(entries)
         IN  e.size + (IF e.kind = "dir" THEN get_dir_size_any(e.kids) ELSE 0)
             + get_dir_size_any(Tail(entries))

\* get_dir_size(): the walk over the entries of a directory; a directory is
\* entered, a regular file adds its st_size, anything else adds nothing.
RECURSIVE get_dir_size(_)
get_dir_size(entries) ==
    IF entries = <<>> THEN 0
    ELSE LET e == Head(entries)
         IN  (CASE e.kind = "dir" -> get_dir_size(e.kids)
                [] e.kind = "reg" -> e.size
                [] OTHER -> 0)
             + get_dir_size(Tail(entries))

\* d_type of the entry readdir() returns for occupant o of files_dir (line
\* 903): the type of the entry, or DT_UNKNOWN on a file system that does not
\* record it in its directories.
DType(o) ==
    IF ~d_type THEN "DT_UNKNOWN" ELSE IF IsDirOcc(o) THEN "DT_DIR" ELSE "DT_REG"

\* The rows create_or_update_dir_size_cache() writes: size and name of the
\* entries of files_dir whose d_type is DT_DIR and whose sidecar exists.
cache_rows(fs, is) ==
    {[size |-> get_dir_size(Tree(e.occ)), stem |-> e.stem] :
        e \in {x \in fs : DType(x.occ) = "DT_DIR" /\ x.stem \in Stems(is)}}

\* Mutant of cache_failed_info: the failure path removes the sidecar, as the
\* rename's failure path does.
cache_failed_rollback(set, st) == {e \in set : e.stem # st}
\* What soft_delete does to the sidecars when the cache update fails (line
\* 1067): nothing, the move is kept.
cache_failed_info(set, st) == set

\* Mutant of cache_status: the result of the cache update is not looked at.
cache_status_ignored(failed, old) == old
\* soft_delete line 1067: the status after create_or_update_dir_size_cache().
cache_status(failed, old) == IF failed THEN LIBTRASHCAN_DIRCACHE ELSE old

\* The strings and the streams of create_or_update_dir_size_cache(): what
\* lines 888-901 and 911 allocate and open, and what the labels of lines
\* 947-957 free and close.
CacheBufs == {"temp_name", "dir_size_cache", "dir_size_cache_temp"}
cache_frees(label) ==
    IF label = "error_0" THEN {}
    ELSE {"current_line", "current_trashinfo", "dir_size_cache_temp", "dir_size_cache", "temp_name"}
cache_closes(label) ==
    CASE label = "error_3" -> {"directory", "cache_temp"}
      [] label = "error_2" -> {"cache_temp"}
      [] OTHER -> {}
\* The label the updater leaves by when the call of name f fails.
cache_label(f) ==
    CASE f = "tmp" -> "error_1"
      [] f = "scan" -> "error_2"
      [] f = "size" -> "error_3"
      [] OTHER -> "none"

\* create_or_update_dir_size_cache() lines 888-935: the temporary is opened
\* and the rows are written.  "tmp" fails before the temporary exists (fopen),
\* "scan" after (opendir), "size" in get_dir_size() on a directory of
\* files_dir.  "flush": the rows are in the stream's buffer when the write to
\* the disk fails in fclose() (line 935), whose result is not looked at; only
\* a part of the rows is in the file and the call goes on.
CacheWrite(p) ==
    /\ pc[p] = "cache"
    /\ \E f \in {"none", "tmp", "scan", "size", "flush"} :
         LET rows == cache_rows(files[root[p]], info[root[p]])
             failed == f \in {"tmp", "scan", "size"}
             opened == CASE f = "tmp" -> {}
                         [] f = "scan" -> {"cache_temp"}
                         [] OTHER -> {"cache_temp", "directory"}
             closed == IF failed THEN cache_closes(cache_label(f))
                       ELSE {"directory", "cache_temp"}
             strings == CacheBufs \cup (IF f = "size" THEN {"current_dir"} ELSE {})
         IN  /\ MayFail(f, CASE f = "flush" -> rows # {}
                              [] f = "size" -> \E e \in files[root[p]] : DType(e.occ) = "DT_DIR"
                              [] OTHER -> TRUE)
             /\ faults' = Spend(f)
             /\ \E part \in SUBSET rows :
                  /\ part = rows <=> f = "none"
                  /\ failed => part = {}
                  /\ tmp' = [tmp EXCEPT ![p] =
                         CASE f = "tmp" -> @
                           [] OTHER -> [exists |-> TRUE, rows |-> part, whole |-> f = "none"]]
             /\ pc' = [pc EXCEPT ![p] = IF failed THEN "done" ELSE "swap"]
             /\ status' = [status EXCEPT ![p] = cache_status(failed, @)]
             /\ info' = IF ~failed THEN info
                        ELSE [info EXCEPT ![root[p]] = cache_failed_info(@, stem[p])]
             /\ heap' = [heap EXCEPT ![p] =
                    IF failed THEN ((@ \cup strings) \ cache_frees(cache_label(f))) \ frees("error_2")
                    ELSE @ \cup strings]
             /\ streams' = [streams EXCEPT ![p] = (@ \cup opened) \ closed]
    /\ UNCHANGED <<orig, files, lost, topdir, dirsizes, cfgvars, sidevars, now, tm, localvars>>

\* create_or_update_dir_size_cache() lines 937-945 and the return of
\* soft_delete: the temporary is renamed over directorysizes, or removed.
CacheSwap(p) ==
    /\ pc[p] = "swap"
    /\ \E f \in {"none", "rename"} :
         /\ MayFail(f, TRUE)
         /\ faults' = Spend(f)
         /\ dirsizes' = IF f = "none" THEN [dirsizes EXCEPT ![root[p]] = tmp[p]] ELSE dirsizes
         /\ status' = [status EXCEPT ![p] = cache_status(f # "none", @)]
         /\ info' = IF f = "none" THEN info
                    ELSE [info EXCEPT ![root[p]] = cache_failed_info(@, stem[p])]
    /\ tmp' = [tmp EXCEPT ![p] = NoFile]
    /\ pc' = [pc EXCEPT ![p] = "done"]
    /\ heap' = [heap EXCEPT ![p] = (@ \ cache_frees("error_1")) \ frees("error_2")]
    /\ UNCHANGED <<orig, files, lost, topdir, cfgvars, sidevars, now, tm, localvars, streams>>

Next ==
    \/ \E p \in Calls : Realpath(p)
    \/ \E p \in Calls : SelectRoot(p)
    \/ \E p \in Calls : Attempt(p)
    \/ \E p \in Calls : Commit(p)
    \/ \E p \in Calls : Rollback(p)
    \/ \E p \in Calls : CacheWrite(p)
    \/ \E p \in Calls : CacheSwap(p)

Spec == Init /\ [][Next]_vars
SpecNoFault == InitNoFault /\ [][Next]_vars

\* The calls where symbolic links to the sources exist, no system call
\* failing for an outside reason.
InitLink == InitWith({[topdir |-> m, k |-> 0, j |-> 0, name_max |-> 256, links |-> {1, 2}] :
                         m \in {MountAbsent, MountReady}},
                     {EnvDefault}, {FALSE}, 0)
SpecLink == InitLink /\ [][Next]_vars

\* The calls as threads of one process: localtime() hands every call the
\* same buffer, and which call wrote it last decides what a call reads.
InitThreads == InitWith({[topdir |-> m, k |-> k, j |-> 0, name_max |-> 256] :
                            m \in {MountAbsent, MountReady}, k \in 0..1},
                        {EnvDefault}, {TRUE}, 0)
SpecThreads == InitThreads /\ [][Next]_vars

\* What a call that has begun does next.  The caller decides when a call
\* begins; once begun, the call is a running thread or process, which the
\* scheduler does not leave waiting for ever.
Run(p) ==
    \/ SelectRoot(p) \/ Attempt(p) \/ Commit(p)
    \/ Rollback(p) \/ CacheWrite(p) \/ CacheSwap(p)
\* The calls on trashes of every filling, where the names fit and where they
\* do not, system calls failing.
InitLive == InitWith({[topdir |-> MountReady, k |-> k, j |-> j, name_max |-> n] :
                         k \in {0, CounterMod}, j \in 0..NRand, n \in {14, 256}},
                     {EnvDefault}, {FALSE}, MaxFaults)
SpecLive == InitLive /\ [][Next]_vars /\ \A p \in Calls : WF_vars(Run(p))

\* The calls under every setting of XDG_DATA_HOME and HOME, no system call
\* failing for an outside reason.
InitEnv == InitWith({[topdir |-> m, k |-> 0, j |-> 0, name_max |-> 256] : m \in {MountAbsent, MountReady}},
                    Envs, {FALSE}, 0)
SpecEnv == InitEnv /\ [][Next]_vars

\* The calls on trashes that hold a directory without a sidecar, and on file
\* systems with and without d_type, no system call failing for an outside
\* reason.
InitScan == InitWith({[topdir |-> MountReady, k |-> k, j |-> 0, name_max |-> 256,
                       orphan |-> o, d_type |-> d] : k \in 0..1, o \in BOOLEAN, d \in BOOLEAN},
                     {EnvDefault}, {FALSE}, 0)
SpecScan == InitScan /\ [][Next]_vars

\* ------------------------------------------------- the Windows build
\* The paths a caller may pass: NULL, or a string of len characters.
ComPaths == {[null |-> TRUE, len |-> 0]} \cup {[null |-> FALSE, len |-> n] : n \in 0..MaxComLen}

\* MultiByteToWideChar(CP_OEMCP, 0, path, -1, NULL, 0): the length in wide
\* characters with the terminating zero, or 0 when it fails.
MultiByteToWideChar(path, fails) == IF path.null \/ fails THEN 0 ELSE path.len + 1

\* soft_delete_internal(): the status when the call of name f fails ("none":
\* no call fails); CoInitializeEx is called only with init_com.
soft_delete_internal(init_com, f) ==
    CASE f = "cominit" /\ init_com -> LIBTRASHCAN_COMINIT
      [] f = "instance" -> LIBTRASHCAN_INSTANCE
      [] f = "flags" -> LIBTRASHCAN_FLAGS
      [] f = "parse" -> LIBTRASHCAN_PARSE
      [] f = "setop" -> LIBTRASHCAN_SETOP
      [] f = "execop" -> LIBTRASHCAN_EXECOP
      [] OTHER -> LIBTRASHCAN_SUCCESS

\* soft_delete_com() lines 189-193: the length query.
ComLength(p) ==
    /\ win[p].pc = "ready"
    /\ \A q \in Calls : q < p => win[q].pc # "ready"
    /\ \E path \in ComPaths, init_com, fails \in BOOLEAN :
         LET mbslen == MultiByteToWideChar(path, fails)
         IN  win' = [win EXCEPT ![p] = [@ EXCEPT !.path = path, !.init_com = init_com,
                                                  !.mbslen = mbslen,
                                                  !.pc = IF mbslen = 0 THEN "done" ELSE "alloc"]]
    /\ UNCHANGED <<fsvars, cfgvars, faults, now, tm, pc, localvars, status, resvars, esc, mnt>>

\* soft_delete_com() lines 195-197: calloc(mbslen, sizeof(wchar_t)).
ComAlloc(p) ==
    /\ win[p].pc = "alloc"
    /\ \E fails \in BOOLEAN :
         win' = [win EXCEPT ![p] = [@ EXCEPT !.wcs = ~fails,
                                                  !.pc = IF fails THEN "done" ELSE "convert"]]
    /\ UNCHANGED <<fsvars, cfgvars, faults, now, tm, pc, localvars, status, resvars, esc, mnt>>

\* soft_delete_com() lines 199 and 203-206: the conversion; wcs is freed when
\* it fails.
ComConvert(p) ==
    /\ win[p].pc = "convert"
    /\ \E fails \in BOOLEAN :
         LET n == MultiByteToWideChar(win[p].path, fails)
         IN  win' = [win EXCEPT ![p] = [@ EXCEPT !.wcs = n # 0,
                                                  !.pc = IF n = 0 THEN "done" ELSE "internal"]]
    /\ UNCHANGED <<fsvars, cfgvars, faults, now, tm, pc, localvars, status, resvars, esc, mnt>>

ComFailures == {"none", "cominit", "instance", "flags", "parse", "setop", "execop"}

\* soft_delete_com() lines 201-206: soft_delete_internal(wcs, init_com), then
\* free(wcs) and the return.  When CoCreateInstance fails, error_1 calls
\* Release through the pointer it left (line 168): the call returns the
\* status or the process stops there.
ComInternal(p) ==
    /\ win[p].pc = "internal"
    /\ \E f \in ComFailures, stops \in BOOLEAN :
         LET st == soft_delete_internal(win[p].init_com, f)
         IN  /\ stops => f = "instance"
             /\ win' = [win EXCEPT ![p] = [@ EXCEPT !.status = IF stops THEN @ ELSE st,
                                                      !.recycled = st = LIBTRASHCAN_SUCCESS,
                                                      !.wcs = stops,
                                                      !.pc = IF stops THEN "stopped" ELSE "done"]]
    /\ UNCHANGED <<fsvars, cfgvars, faults, now, tm, pc, localvars, status, resvars, esc, mnt>>

NextCom ==
    \/ \E p \in Calls : ComLength(p)
    \/ \E p \in Calls : ComAlloc(p)
    \/ \E p \in Calls : ComConvert(p)
    \/ \E p \in Calls : ComInternal(p)

InitCom == InitWith({[topdir |-> MountReady, k |-> 0, j |-> 0, name_max |-> 256]},
                    {EnvDefault}, {FALSE}, 0)
SpecCom == InitCom /\ [][NextCom]_vars

\* ------------------------------------------------------ escape_path()
\* The bytes of the paths: '/', 'a', ' ', '%', '2', '5' and 0xC3.
MaxPathLen == 3
EscBytes == {47, 97, 32, 37, 50, 53, 195}
\* "/h/a b%c.txt" and what the sidecar holds for it, "/h/a%20b%25c.txt".
EscExample == <<47, 104, 47, 97, 32, 98, 37, 99, 46, 116, 120, 116>>
EscExampleOut == <<47, 104, 47, 97, 37, 50, 48, 98, 37, 50, 53, 99, 46, 116, 120, 116>>
RECURSIVE SeqsUpTo(_, _)
SeqsUpTo(S, n) ==
    IF n = 0 THEN {<<>>}
    ELSE LET shorter == SeqsUpTo(S, n - 1)
         IN  shorter \cup {Append(q, b) : q \in shorter, b \in S}
EscInputs == SeqsUpTo(EscBytes, MaxPathLen) \cup {EscExample}

\* A byte as the char parameter of is_unreserved() holds it (char is signed).
AsChar(b) == IF b >= 128 THEN b - 256 ELSE b
\* Mutant of is_unreserved: '%' counts as unreserved too.
is_unreserved_percent(c) ==
    \/ 97 <= c /\ c <= 122
    \/ 65 <= c /\ c <= 90
    \/ 48 <= c /\ c <= 57
    \/ c \in {45, 95, 46, 33, 126, 42, 39, 40, 41, 37}
\* is_unreserved(): a-z, A-Z, 0-9 and - _ . ! ~ * ' ( ).
is_unreserved(c) ==
    \/ 97 <= c /\ c <= 122
    \/ 65 <= c /\ c <= 90
    \/ 48 <= c /\ c <= 57
    \/ c \in {45, 95, 46, 33, 126, 42, 39, 40, 41}
\* A digit of "%02hhX": 0-9, A-F.
HexDigit(n) == IF n < 10 THEN 48 + n ELSE 55 + n
\* What one turn of the loop of escape_path() appends for the byte b (lines
\* 611-620): the byte, or '%' and its two hexadecimal digits.
escape_byte(b) ==
    IF is_unreserved(AsChar(b)) \/ b = 47 THEN <<b>>
    ELSE <<37, HexDigit(b \div 16), HexDigit(b % 16)>>

\* create_info_file() line 647: escape_path() is called with a path.
EscapeCall(str) ==
    /\ esc.pc = "ready"
    /\ esc' = [pc |-> "loop", str |-> str, i |-> 0, buf |-> <<>>]
    /\ UNCHANGED <<fsvars, cfgvars, faults, now, tm, pc, localvars, status, resvars, win, mnt>>

\* escape_path() lines 609-621: one turn of the loop.
EscapeTurn ==
    /\ esc.pc = "loop"
    /\ esc.i < Len(esc.str)
    /\ esc' = [esc EXCEPT !.i = @ + 1, !.buf = @ \o escape_byte(esc.str[esc.i + 1])]
    /\ UNCHANGED <<fsvars, cfgvars, faults, now, tm, pc, localvars, status, resvars, win, mnt>>

\* escape_path() lines 609 and 623-626: the loop ends, the string is returned.
EscapeReturn ==
    /\ esc.pc = "loop"
    /\ esc.i = Len(esc.str)
    /\ esc' = [esc EXCEPT !.pc = "done"]
    /\ UNCHANGED <<fsvars, cfgvars, faults, now, tm, pc, localvars, status, resvars, win, mnt>>

NextEscape ==
    \/ \E str \in EscInputs : EscapeCall(str)
    \/ EscapeTurn
    \/ EscapeReturn

SpecEscape == InitCom /\ [][NextEscape]_vars

\* --------------------------------------------------- get_mountpoint()
\* The mount table: entries [mnt_dir, st_dev], st_dev being the device
\* lstat(mnt_dir) reports, or "fail" when lstat() fails (a mount point the
\* user may not search, a stale network mount).
MaxMounts == 3
MountEntries == {[mnt_dir |-> d, st_dev |-> v] : d \in {"/", "/mnt/usb"},
                                                v \in {"home", "usb", "fail"}}
MountTables == SeqsUpTo(MountEntries, MaxMounts)

\* get_top_trash_dir() line 453 calls get_mountpoint(); setmntent(), line 393.
MountCall(table, device) ==
    /\ mnt.pc = "ready"
    /\ mnt' = [mnt EXCEPT !.pc = "loop", !.table = table, !.device = device]
    /\ UNCHANGED <<fsvars, cfgvars, faults, now, tm, pc, localvars, status, resvars, win, esc>>

\* get_mountpoint() lines 396-403 and 406-408: getmntent() gives an entry;
\* a failure of lstat() leaves the function, a matching device ends the loop
\* and the directory of the entry is returned.
MountTurn ==
    /\ mnt.pc = "loop"
    /\ mnt.i < Len(mnt.table)
    /\ LET mount_entry == mnt.table[mnt.i + 1]
       IN  mnt' = CASE mount_entry.st_dev = "fail" -> [mnt EXCEPT !.pc = "done"]
                    [] mount_entry.st_dev = mnt.device ->
                          [mnt EXCEPT !.pc = "done", !.status = 0,
                                      !.mount_dir = mount_entry.mnt_dir]
                    [] OTHER -> [mnt EXCEPT !.i = @ + 1]
    /\ UNCHANGED <<fsvars, cfgvars, faults, now, tm, pc, localvars, status, resvars, win, esc>>

\* get_mountpoint() lines 396 and 405: getmntent() gives NULL, no entry is
\* left.
MountEnd ==
    /\ mnt.pc = "loop"
    /\ mnt.i = Len(mnt.table)
    /\ mnt' = [mnt EXCEPT !.pc = "done"]
    /\ UNCHANGED <<fsvars, cfgvars, faults, now, tm, pc, localvars, status, resvars, win, esc>>

NextMount ==
    \/ \E table \in MountTables, device \in {"home", "usb"} : MountCall(table, device)
    \/ MountTurn
    \/ MountEnd

SpecMount == InitCom /\ [][NextMount]_vars

\* ------------------------------------------------------------ properties
Done(p) == pc[p] = "done"
Returned(p, st) == pc[p] = "done" /\ status[p] = st
TrashedAt(r, st, s) == [stem |-> st, occ |-> s] \in files[r]
HasSidecar(r, st) == st \in Stems(info[r])
OwnSidecars(p) == UNION {{i \in info[r] : i.by = p} : r \in Roots}
\* The call has renamed its source into files_dir.
Moved(p) ==
    \/ pc[p] \in {"cache", "swap"}
    \/ pc[p] = "done" /\ status[p] \in {LIBTRASHCAN_SUCCESS, LIBTRASHCAN_DIRCACHE}
\* The call holds a name: its exclusive creation of the sidecar succeeded.
Holding(p) == pc[p] \in {"commit", "rollback"} \/ Moved(p)

\* C1 (pairing after success): whenever a call has returned Success, the
\* trashed entry files_dir/<stem> and the sidecar info_dir/<stem>.trashinfo
\* both exist for the stem the call chose, whatever the trash root and the
\* number of collisions before.
C1_PairingAfterSuccess ==
    \A p \in Calls : Returned(p, LIBTRASHCAN_SUCCESS) =>
        /\ root[p] \in Roots
        /\ TrashedAt(root[p], stem[p], src[p])
        /\ HasSidecar(root[p], stem[p])
\* A call has returned Success in a top-directory trash after a collision.
C1_Witness ==
    \E p \in Calls : /\ Returned(p, LIBTRASHCAN_SUCCESS)
                     /\ counter[p] > 0
                     /\ root[p] \in {"TopAdmin", "TopUser"}

\* C2 (origin absence): whenever a call has returned Success, nothing exists
\* at the canonical source path.
C2_OriginAbsent ==
    \A p \in Calls : Returned(p, LIBTRASHCAN_SUCCESS) => ~orig[src[p]]
\* A call has returned Success and its source is in the trash under its stem.
C2_Witness ==
    \E p \in Calls : /\ Returned(p, LIBTRASHCAN_SUCCESS)
                     /\ TrashedAt(root[p], stem[p], src[p])

\* Every entry is somewhere: each source at its path or in some files_dir,
\* and no rename has replaced an entry of files_dir.
NothingLost ==
    /\ \A s \in Sources : orig[s] \/ \E r \in Roots : \E e \in files[r] : e.occ = s
    /\ lost = {}
\* A call that resolved its source and returned an error other than
\* SizeCacheFailed.
FailedAfterResolve(p) ==
    /\ pc[p] = "done"
    /\ status[p] \notin {LIBTRASHCAN_SUCCESS, LIBTRASHCAN_DIRCACHE, LIBTRASHCAN_REALPATH}

\* C3 as stated (no data loss): nothing is lost, the commit rename replaces
\* no entry of files_dir, and after every error return other than
\* SizeCacheFailed the source is still at its original path.
C3_AsStated ==
    /\ NothingLost
    /\ \A p \in Calls : FailedAfterResolve(p) => orig[src[p]]

\* C3 as amended (no data loss): nothing is lost, the commit rename replaces
\* no entry of files_dir, and after every error return other than
\* SizeCacheFailed the call has moved nothing: the source is still at its
\* original path, or another call on the same path has moved it to the path
\* that call allocated.
C3_NoDataLoss ==
    /\ NothingLost
    /\ \A p \in Calls :
         (pc[p] = "done" /\ status[p] \notin {LIBTRASHCAN_SUCCESS, LIBTRASHCAN_DIRCACHE}) =>
            \/ orig[src[p]]
            \/ \E q \in Calls \ {p} :
                 /\ src[q] = src[p]
                 /\ Moved(q)
                 /\ TrashedAt(root[q], stem[q], src[q])
\* Two calls on one path: one has moved the source, the other resolved it
\* before that and returned an error.
C3_Witness ==
    \E p \in Calls : FailedAfterResolve(p) /\ ~orig[src[p]]

\* C4 (no orphan sidecars): after every error return, no sidecar the call
\* created remains in info_dir without its entry in files_dir.
C4_NoOrphanSidecar ==
    \A p \in Calls : (pc[p] = "done" /\ status[p] # LIBTRASHCAN_SUCCESS) =>
        \A r \in Roots : \A i \in info[r] : i.by = p => i.stem \in Stems(files[r])

C6_CacheFailureKeepsMove ==
    \A p \in Calls : Returned(p, LIBTRASHCAN_DIRCACHE) =>
        /\ TrashedAt(root[p], stem[p], src[p])
        /\ \E i \in info[root[p]] : i.stem = stem[p] /\ i.by = p
        /\ ~orig[src[p]]
\* A call has returned SizeCacheFailed.
C6_Witness ==
    \E p \in Calls : Returned(p, LIBTRASHCAN_DIRCACHE) /\ Moved(p)

\* C7 (uniqueness by exclusive creation): in one trash root no two calls hold
\* the same stem and no two sidecars have the same name; a call holds a stem
\* only with the sidecar it created itself; a sidecar is created only where
\* none was; and a call that met a collision created nothing and tries again
\* (or gives up after the random form).
C7_UniqueByExclusiveCreate ==
    /\ [](\A p, q \in Calls :
            (p # q /\ Holding(p) /\ Holding(q) /\ root[p] = root[q]) => stem[p] # stem[q])
    /\ [](\A r \in Roots : \A i, j \in info[r] : i.stem = j.stem => i = j)
    /\ [](\A p \in Calls : Holding(p) =>
            \E i \in info[root[p]] : i.stem = stem[p] /\ i.by = p)
    /\ [][\A p \in Calls :
            /\ (pc[p] = "naming" /\ pc'[p] = "commit") =>
                  stem'[p] \notin Stems(info[root[p]]) /\ stem'[p] \in Stems(info'[root[p]])
            /\ (pc[p] = "naming" /\ counter'[p] # counter[p]) =>
                  /\ info' = info
                  /\ pc'[p] = "naming" \/ (rnd[p] /\ status'[p] = LIBTRASHCAN_COLLISION)]_vars
\* Two calls hold stems in one root, one of them after a collision.
C7_Witness ==
    \E p, q \in Calls : /\ p # q /\ Holding(p) /\ Holding(q)
                        /\ root[p] = root[q]
                        /\ counter[q] > 0 /\ ~rnd[q]

\* C8 (concurrency safety, P7), as stated: with no system call failing for an
\* outside reason, every call that has returned, on a source no other call
\* names and with a counter that has not wrapped, has returned Success, and
\* calls that returned Success in one root chose distinct stems.  It fails on
\* a file system that reports no name limit: generate_filenames leaves
\* chars_left at 0 and asks for a random name of odd length, so every call,
\* concurrent or not, returns LIBTRASHCAN_FILENAMES (see C18).
C8_AsStated ==
    /\ \A p \in Calls :
         (/\ pc[p] = "done"
          /\ ~rnd[p]
          /\ \A q \in Calls \ {p} : src[q] # src[p]) => status[p] = LIBTRASHCAN_SUCCESS
    /\ \A p, q \in Calls :
         (/\ p # q
          /\ Returned(p, LIBTRASHCAN_SUCCESS) /\ Returned(q, LIBTRASHCAN_SUCCESS)
          /\ root[p] = root[q]) => stem[p] # stem[q]
\* C8 restricted to file systems that report a name limit the allocator can
\* serve, and to a $mount/.Trash that does not lead to another device: there
\* the calls all return Success with distinct stems.
C8_ConcurrentCallsSucceed ==
    /\ \A p \in Calls :
         (/\ pc[p] = "done"
          /\ name_max \in {14, 255, 256}
          /\ ~topdir.far
          /\ ~rnd[p]
          /\ \A q \in Calls \ {p} : src[q] # src[p]) => status[p] = LIBTRASHCAN_SUCCESS
    /\ \A p, q \in Calls :
         (/\ p # q
          /\ Returned(p, LIBTRASHCAN_SUCCESS) /\ Returned(q, LIBTRASHCAN_SUCCESS)
          /\ root[p] = root[q]) => stem[p] # stem[q]
\* Two calls on different sources with one basename, in the same second and
\* the same root, have both returned Success, one after a collision.
C8_Witness ==
    \E p, q \in Calls :
        /\ src[p] # src[q] /\ SrcName(src[p]) = SrcName(src[q])
        /\ Returned(p, LIBTRASHCAN_SUCCESS) /\ Returned(q, LIBTRASHCAN_SUCCESS)
        /\ root[p] = root[q] /\ rawtime[p] = rawtime[q]
        /\ counter[q] > 0 /\ ~rnd[q]

\* C9 (sticky-bit safety): a call uses $mount/.Trash/$uid as its trash root
\* only if $mount/.Trash is a directory, not a symbolic link, with the sticky
\* bit set.
C9_StickyBitSafety ==
    \A p \in Calls : root[p] = "TopAdmin" =>
        topdir.dot = "dir" /\ topdir.dotSticky

\* C10 (case 1 is taken when available): for a source on another device than
\* the home trash, if $mount/.Trash is a real directory with the sticky bit,
\* the trash root is $mount/.Trash/$uid and $mount/.Trash-$uid is not created.
C10_Case1WhenAvailable ==
    \A p \in Calls :
        (/\ root[p] \in Roots
         /\ SrcDev(src[p]) = "usb"
         /\ topdir.dot = "dir" /\ topdir.dotSticky) =>
            root[p] = "TopAdmin" /\ ~topdir.case2

\* C11 (same-device rename): whenever a call is about to attempt the commit
\* rename, the files_dir it chose is on the device of its source, whichever
\* of the three roots it is.
C11_SameDeviceRename ==
    \A p \in Calls : pc[p] = "commit" =>
        /\ root[p] \in Roots
        /\ FilesDev(root[p], topdir) = SrcDev(src[p])

\* The codes of STATUS_CODES: 0 and the thirteen negative ones.
StatusCodes == LIBTRASHCAN_DIRCACHE..LIBTRASHCAN_SUCCESS

\* C12 (status codes on Unix): a call returns 0 exactly when it returns from
\* a cache update that renamed its temporary over directorysizes, its entry
\* moved before; every other return gives a negative code of the taxonomy,
\* with the cache not replaced by that step; the collision signal 1 of
\* create_info_file is never a return value.
C12_StatusContract ==
    /\ [](\A p \in Calls : Done(p) => status[p] \in StatusCodes)
    /\ [](\A p \in Calls : Returned(p, LIBTRASHCAN_SUCCESS) =>
            TrashedAt(root[p], stem[p], src[p]) /\ dirsizes[root[p]].exists)
    /\ [][\A p \in Calls : (pc[p] # "done" /\ pc'[p] = "done") =>
            /\ status'[p] = LIBTRASHCAN_SUCCESS =>
                  /\ pc[p] = "swap" /\ tmp[p].exists
                  /\ dirsizes'[root[p]] = tmp[p]
            /\ status'[p] # LIBTRASHCAN_SUCCESS =>
                  /\ status'[p] < 0
                  /\ dirsizes' = dirsizes]_vars
\* One call has returned 0 after meeting the collision signal, another has
\* returned CollisionFailed.
C12_Witness ==
    \E p, q \in Calls :
        /\ Returned(p, LIBTRASHCAN_SUCCESS) /\ counter[p] > 0
        /\ Returned(q, LIBTRASHCAN_COLLISION)

\* C13 (status codes on Windows): a soft_delete_com call that has returned 0
\* has performed the recycle operation, and a call that has returned without
\* reaching soft_delete_internal (the length query, the allocation or the
\* conversion failed) has returned a negative status.
C13_ComStatusContract ==
    \A p \in Calls : win[p].pc = "done" =>
        /\ win[p].status = LIBTRASHCAN_SUCCESS => win[p].recycled
        /\ ~win[p].recycled => win[p].status < 0

\* The call has gone through the selection of its trash root.
PastSelect(p) ==
    \/ pc[p] \in {"naming", "commit", "rollback", "cache", "swap"}
    \/ pc[p] = "done" /\ status[p] # LIBTRASHCAN_REALPATH
\* The variable the home trash is to be taken from.
HomeTrashFrom(e) ==
    IF e.xdg = "set" THEN "xdg" ELSE IF e.home = "set" THEN "home" ELSE "fail"

\* C14 (home-trash selection), with no system call failing for an outside
\* reason: a call past the selection of its root took the home trash from
\* XDG_DATA_HOME if that is set and not empty, else from HOME, so it has not
\* failed with NoHomeTrash or on the creation of the data home; and it has
\* returned NoHomeTrash if neither variable is usable.
C14_HomeTrashSelection ==
    \A p \in Calls : PastSelect(p) =>
        /\ get_home_trash_dir(env) = HomeTrashFrom(env)
        /\ IF HomeTrashFrom(env) = "fail"
           THEN Returned(p, LIBTRASHCAN_HOMETRASH)
           ELSE status[p] \notin {LIBTRASHCAN_HOMETRASH, LIBTRASHCAN_MKDIRHOME}

\* C15 (atomic cache swap): at every point of every interleaving, the file
\* directorysizes of each root is absent or holds a table its writer wrote
\* completely.
C15_AtomicCacheSwap ==
    \A r \in Roots : dirsizes[r].exists => dirsizes[r].whole

\* The entries below a directory, those below its subdirectories included and
\* those behind symbolic links not.
RECURSIVE Reachable(_)
Reachable(entries) ==
    IF entries = <<>> THEN <<>>
    ELSE <<Head(entries)>>
         \o (IF Head(entries).kind = "dir" THEN Reachable(Head(entries).kids) ELSE <<>>)
         \o Reachable(Tail(entries))
RECURSIVE SumSizes(_)
SumSizes(entries) ==
    IF entries = <<>> THEN 0 ELSE Head(entries).size + SumSizes(Tail(entries))
IsReg(e) == e.kind = "reg"
\* The sum of st_size over the regular files reachable from a directory.
RegularBytes(entries) == SumSizes(SelectSeq(Reachable(entries), IsReg))

\* C16 (cache soundness, P6): every row of a table a call wrote, in
\* directorysizes or in a temporary, names a directory that is directly under
\* files_dir, and its size is the sum of st_size over the regular files
\* reachable from that directory, symbolic links and other kinds adding 0.
C16_CacheSoundness ==
    /\ \A r \in Roots : \A row \in dirsizes[r].rows :
          \E e \in files[r] : /\ e.stem = row.stem
                              /\ IsDirOcc(e.occ)
                              /\ row.size = RegularBytes(Tree(e.occ))
    /\ \A p \in Calls : \A row \in tmp[p].rows :
          \E e \in files[root[p]] : /\ e.stem = row.stem
                                    /\ IsDirOcc(e.occ)
                                    /\ row.size = RegularBytes(Tree(e.occ))
\* directorysizes holds the row of a directory trashed by a call, a directory
\* with regular files, a symbolic link, a subdirectory and another kind of
\* file in it, next to the row of a directory trashed before.
C16_Witness ==
    \E p \in Calls :
        /\ Returned(p, LIBTRASHCAN_SUCCESS) /\ src[p] = 1
        /\ [size |-> RegularBytes(Tree(1)), stem |-> stem[p]] \in dirsizes[root[p]].rows
        /\ RegularBytes(Tree(1)) # get_dir_size_any(Tree(1))
        /\ \E row \in dirsizes[root[p]].rows : row.stem # stem[p]

\* C17 (cache completeness), with no system call failing for an outside
\* reason: once every call has returned, in each trash root whose calls all
\* returned Success, directorysizes holds a row for every directory directly
\* under files_dir that has a sidecar, those the calls trashed included.
C17_CacheComplete ==
    (\A p \in Calls : Done(p)) =>
        \A r \in Roots :
            (/\ \E p \in Calls : root[p] = r
             /\ \A p \in Calls : root[p] = r => status[p] = LIBTRASHCAN_SUCCESS) =>
                cache_rows(files[r], info[r]) \subseteq dirsizes[r].rows

\* The call has been through generate_filenames() at least once.
PastNaming(p) ==
    \/ pc[p] \in {"commit", "rollback", "cache", "swap"}
    \/ pc[p] = "naming" /\ counter[p] > 0
    \/ pc[p] = "done" /\ root[p] \in Roots /\ status[p] # LIBTRASHCAN_TIME

\* C18 (no name-length limit), with no system call failing for an outside
\* reason: on a file system that reports no limit for _PC_NAME_MAX, a call
\* whose counter has not wrapped gets the standard-form name basename +
\* timestamp + counter: the allocator does not fail, and the name the call
\* holds is of the standard form.
C18_NoLimitStandardForm ==
    \A p \in Calls :
        (PastNaming(p) /\ name_max = NoLimit /\ ~rnd[p]) =>
            /\ status[p] # LIBTRASHCAN_FILENAMES
            /\ Holding(p) => stem[p] = StdStem(SrcName(src[p]), rawtime[p], counter[p])

\* The standard form of the call's next candidate does not fit the name limit.
Overflows(p) ==
    /\ name_max # NoLimit
    /\ name_max - (TsLen + Len(SrcName(src[p])) + HexLen(counter[p]) + SuffixLen) <= 0

\* C19 (random fallback), with no system call failing for an outside reason:
\* whatever name limit the file system reports, a call whose standard form
\* overflows or whose force_random is set is given a name by the allocator;
\* the name it holds is of the random form and its sidecar records the
\* source path.
C19_RandomFallback ==
    \A p \in Calls :
        (PastNaming(p) /\ name_max # NoLimit /\ (rnd[p] \/ Overflows(p))) =>
            /\ status[p] # LIBTRASHCAN_FILENAMES
            /\ Holding(p) =>
                  /\ \E k \in 1..NRand : stem[p] = RndStem(k)
                  /\ \E i \in info[root[p]] : i.stem = stem[p] /\ i.path = src[p]

\* C20 (top-directory failures): whenever a call on a source of another
\* device than the home trash could prepare neither the case (1) nor the
\* case (2) top directory, it has returned TopDirTrashFailed.
C20_TopDirFailure ==
    \A p \in Calls : root[p] = "unprepared" =>
        /\ SrcDev(src[p]) = "usb"
        /\ Returned(p, LIBTRASHCAN_TOPDIRTRASH)

\* C21 (buffer release): when a call of soft_delete() has returned, by
\* whatever exit path, every heap buffer it or its helpers allocated has been
\* released: the resolved path, the data-home path, the trash paths, the
\* mount directory, the name candidates and the cache updater's strings.
C21_BuffersReleased ==
    \A p \in Calls : Done(p) => heap[p] = {}

\* C22 (handle release): when a call of soft_delete() has returned, by
\* whatever exit path, every stream it or its helpers opened has been closed:
\* the mount table, the sidecar file, the cache temporary, the directory
\* scans.
C22_StreamsClosed ==
    \A p \in Calls : Done(p) => streams[p] = {}

\* The value of a hexadecimal digit, -1 for any other byte.
HexValue(b) ==
    CASE 48 <= b /\ b <= 57 -> b - 48
      [] 65 <= b /\ b <= 70 -> b - 55
      [] 97 <= b /\ b <= 102 -> b - 87
      [] OTHER -> -1
\* Percent-unescaping of a URI path: '%' and two hexadecimal digits give the
\* byte they name, every other byte is itself.
RECURSIVE unescape(_)
unescape(u) ==
    IF u = <<>> THEN <<>>
    ELSE IF /\ u[1] = 37
            /\ Len(u) >= 3
            /\ HexValue(u[2]) >= 0
            /\ HexValue(u[3]) >= 0
    THEN <<16 * HexValue(u[2]) + HexValue(u[3])>> \o unescape(SubSeq(u, 4, Len(u)))
    ELSE <<u[1]>> \o unescape(Tail(u))

\* C23 (URI-escape round trip): for every source path over the bytes of
\* EscBytes, of length up to MaxPathLen, percent-unescaping what escape_path()
\* returned gives exactly the path; what it returned holds only unreserved
\* characters, '/' and '%' with two upper-case hexadecimal digits; and
\* "/h/a b%c.txt" is written as "/h/a%20b%25c.txt".
C23_EscapeRoundTrip ==
    esc.pc = "done" =>
        /\ unescape(esc.buf) = esc.str
        /\ Len(esc.buf) <= 3 * Len(esc.str)
        /\ \A n \in 1..Len(esc.buf) :
             esc.buf[n] \in {37, 47} \cup (48..57) \cup (65..90) \cup (97..122)
                            \cup {45, 95, 46, 33, 126, 42, 39, 40, 41}
        /\ esc.str = EscExample => esc.buf = EscExampleOut
\* escape_path() has returned for a path that holds "%2" (the start of an
\* escape) and a byte above 0x7F.
C23_Witness ==
    /\ esc.pc = "done"
    /\ esc.str = <<37, 50, 195>>
    /\ esc.buf = <<37, 50, 53, 50, 37, 67, 51>>

\* The step is a call of create_info_file() by call p that found its
\* candidate taken: nothing was created and no other error was reported.
Collided(p) ==
    /\ attempts'[p] = attempts[p] + 1
    /\ info' = info
    /\ status'[p] # LIBTRASHCAN_TRASHINFO

\* C24 (retry protocol): each sidecar collision increments the counter and,
\* unless a random name was enforced, retries; enforce_random_name is set
\* only when the counter wraps to 0, and then exactly one more attempt is
\* made; the call returns CollisionExhausted exactly when a candidate
\* generated with enforce_random_name set collides; a sidecar error other
\* than "already exists" ends the call with SidecarFailed without a retry.
C24_RetryProtocol ==
    [][\A p \in Calls :
         /\ counter'[p] # counter[p] => Collided(p)
         /\ Collided(p) => counter'[p] = (counter[p] + 1) % CounterMod
         /\ (Collided(p) /\ ~rnd[p]) =>
               (pc'[p] = "naming" /\ status'[p] = status[p] /\ stem'[p] = NoStem)
         /\ rnd'[p] # rnd[p] => (Collided(p) /\ counter'[p] = 0 /\ rnd'[p])
         /\ (Collided(p) /\ counter'[p] = 0) => rnd'[p]
         /\ (rnd[p] /\ pc[p] = "naming") => pc'[p] # "naming" \/ UNCHANGED <<pc[p], attempts[p]>>
         /\ (pc[p] # "done" /\ Returned(p, LIBTRASHCAN_COLLISION)') <=> (Collided(p) /\ rnd[p])
         /\ (attempts'[p] # attempts[p] /\ status'[p] = LIBTRASHCAN_TRASHINFO) =>
               (pc'[p] = "done" /\ counter'[p] = counter[p] /\ rnd'[p] = rnd[p])
      ]_vars
\* A call has returned CollisionExhausted: every standard name collided, the
\* counter wrapped, and the one random candidate collided too.
C24_Witness ==
    \E p \in Calls : /\ Returned(p, LIBTRASHCAN_COLLISION)
                     /\ rnd[p]
                     /\ attempts[p] = CounterMod + 1

\* No entry trashed before the calls began has a standard name of second t
\* in root r.
FreshSecond(r, t) ==
    \A i \in info[r] : i.by = 0 => ~(i.stem[1] = "std" /\ i.stem[3] = t)

Matching == {n \in 1..Len(mnt.table) : mnt.table[n].st_dev = mnt.device}

\* C26 (mount resolution): for every mount table and device, get_mountpoint()
\* returns the mount directory of the first entry whose lstat() device equals
\* the device, whatever entries precede it, and fails only if no entry
\* matches.
C26_MountResolution ==
    mnt.pc = "done" =>
        IF Matching = {} THEN mnt.status = -1
        ELSE /\ mnt.status = 0
             /\ \E n \in Matching : /\ \A m \in Matching : n <= m
                                    /\ mnt.mount_dir = mnt.table[n].mnt_dir

\* The step is a cache update by call p that wrote its table whole.
TableWritten(p) == pc[p] = "cache" /\ pc'[p] = "swap" /\ tmp'[p].whole
\* The directories of files_dir of root r whose sidecar exists.
PairedDirs(r) == {e \in files[r] : IsDirOcc(e.occ) /\ \E i \in info[r] : i.stem = e.stem}

\* C27 (cache row selection): the table one cache update writes has a row
\* for exactly those immediate children of files_dir that are directories
\* and whose sidecar exists at the scan; a directory whose sidecar is missing
\* is skipped and the update does not fail; regular files directly under
\* files_dir get no row.
C27_RowSelection ==
    [][\A p \in Calls :
         /\ TableWritten(p) =>
               {row.stem : row \in tmp'[p].rows} = {e.stem : e \in PairedDirs(root[p])}
         /\ (pc[p] = "cache" /\ pc'[p] # "cache" /\ faults' = faults) =>
               (pc'[p] = "swap" /\ status'[p] = status[p])
      ]_vars
\* The same on a file system whose readdir() fills d_type.
C27_RowsWithDType ==
    [][d_type => \A p \in Calls :
         /\ TableWritten(p) =>
               {row.stem : row \in tmp'[p].rows} = {e.stem : e \in PairedDirs(root[p])}
         /\ (pc[p] = "cache" /\ pc'[p] # "cache" /\ faults' = faults) =>
               (pc'[p] = "swap" /\ status'[p] = status[p])
      ]_vars

\* C28 (termination of the naming loop): every call of soft_delete() that
\* has begun returns, and with a counter of CounterBits bits it calls
\* create_info_file() at most 2^CounterBits + 1 times, even when every
\* candidate, standard or random, collides.
C28_Termination ==
    /\ [](\A p \in Calls : attempts[p] <= 2^CounterBits + 1)
    /\ \A p \in Calls : (pc[p] # "ready") ~> (pc[p] = "done")
\* A call has returned after 2^CounterBits + 1 attempts that all collided.
C28_Witness ==
    \E p \in Calls : /\ Done(p)
                     /\ attempts[p] = 2^CounterBits + 1
                     /\ status[p] = LIBTRASHCAN_COLLISION
                     /\ OwnSidecars(p) = {}

\* Where source s lies in the trash: the roots and stems it is under.
Places(s) == {<<r, e.stem>> : r \in Roots, e \in {x \in UNION {files[y] : y \in Roots} : x.occ = s}}
PlacesOf(s) == {pl \in Places(s) : [stem |-> pl[2], occ |-> s] \in files[pl[1]]}
\* The call returned because the other call had taken the source: realpath()
\* or lstat() found nothing, or rename() failed.
LostRace(p) ==
    /\ Done(p)
    /\ status[p] \in {LIBTRASHCAN_REALPATH, LIBTRASHCAN_PATHSTAT, LIBTRASHCAN_RENAME}

C30_OwnDeletionTime ==
    \A p \in Calls : Holding(p) =>
        /\ stem[p][1] = "std" => stem[p][3] = rawtime[p]
        /\ \A i \in OwnSidecars(p) : i.date = rawtime[p]

\* C31 (no leftover cache temporary): whenever the cache updater has
\* returned, whether it succeeded or failed at any step (opening files_dir,
\* sizing a subtree, writing a row, the final rename), the temporary file it
\* created is no longer in the trash base directory.
C31_NoLeftoverTemp ==
    \A p \in Calls : Done(p) => ~tmp[p].exists

\* C32 (symbolic-link input): after a successful call nothing exists at the
\* path the caller gave, also when that path names a symbolic link, and the
\* entry the call put in the trash is the one that was at that path.
C32_GivenPathMoved ==
    \A p \in Calls : Returned(p, LIBTRASHCAN_SUCCESS) =>
        /\ ~ExistsAt(given[p])
        /\ ~given[p].link

================================================================
